---- MODULE Spec2Model ----
(***************************************************************************)
(* Sutherland-Hodgman polygon clipper of polygonClippingVisualizer.        *)
(*                                                                         *)
(* The repository ships the class SutherlandHodgman twice: the copy the    *)
(* page loads (static/js/sutherland-hodgman.js) and the copy bundled with  *)
(* the animation controller (unnamed/part_001).  Both are modelled; the    *)
(* variable `copy` says which one the clipper object was built from.       *)
(*                                                                         *)
(* Coordinates are JavaScript numbers.  The inputs are small integers and  *)
(* every derived coordinate is a quotient of integers, so a number is an   *)
(* exact fraction <<n, d>> in lowest terms with d > 0: the rounding of     *)
(* IEEE doubles is not modelled.  The tolerance 1e-8 of the bundled copy   *)
(* is kept as the fraction 1/EpsilonInv.                                   *)
(***************************************************************************)
EXTENDS Integers, Sequences, FiniteSets, TLC

(***************************************************************************)
(* Exact arithmetic on fractions.                                          *)
(***************************************************************************)
Abs(n) == IF n < 0 THEN -n ELSE n

RECURSIVE Gcd(_, _)
Gcd(a, b) == IF b = 0 THEN a ELSE Gcd(b, a % b)

Frac(n, d) ==
    LET g == Gcd(Abs(n), Abs(d))
        s == IF d < 0 THEN -1 ELSE 1
    IN <<(s * n) \div g, (s * d) \div g>>

Int2F(n) == <<n, 1>>

\* (sums, differences and products of whole numbers are whole numbers;
\* common factors are taken out before multiplying, to keep the integers small)
FAdd(a, b) ==
    IF a[2] = 1 /\ b[2] = 1 THEN <<a[1] + b[1], 1>>
    ELSE IF a[2] = b[2] THEN Frac(a[1] + b[1], a[2])
    ELSE Frac(a[1] * (b[2] \div Gcd(a[2], b[2])) + b[1] * (a[2] \div Gcd(a[2], b[2])),
              (a[2] \div Gcd(a[2], b[2])) * b[2])

FSub(a, b) ==
    IF a[2] = 1 /\ b[2] = 1 THEN <<a[1] - b[1], 1>>
    ELSE FAdd(a, <<-b[1], b[2]>>)

FMul(a, b) ==
    IF a[2] = 1 /\ b[2] = 1 THEN <<a[1] * b[1], 1>>
    ELSE Frac((a[1] \div Gcd(Abs(a[1]), b[2])) * (b[1] \div Gcd(Abs(b[1]), a[2])),
              (a[2] \div Gcd(Abs(b[1]), a[2])) * (b[2] \div Gcd(Abs(a[1]), b[2])))

\* a / b for b # 0 (the callers test the divisor first)
FDiv(a, b) == FMul(a, IF b[1] < 0 THEN <<-b[2], -b[1]>> ELSE <<b[2], b[1]>>)

FLt(a, b) ==
    IF a[2] = b[2] THEN a[1] < b[1]
    ELSE a[1] * (b[2] \div Gcd(a[2], b[2])) < b[1] * (a[2] \div Gcd(a[2], b[2]))

FLe(a, b) == ~FLt(b, a)

FAbs(a) == <<Abs(a[1]), a[2]>>

FMin(a, b) == IF FLt(b, a) THEN b ELSE a

FMax(a, b) == IF FLt(a, b) THEN b ELSE a

FZero == <<0, 1>>

\* 1e-8 is the fraction 1 / EpsilonInv
EpsilonInv == 100000000

\* a < 1e-8 for a >= 0, computed without forming a[1] * EpsilonInv
FBelowEps(a) == a[1] <= (a[2] - 1) \div EpsilonInv

\* a < b - 1e-8, i.e. not (b - a < 1e-8) and a < b
FLtMinusEps(a, b) == FLt(a, b) /\ ~FBelowEps(FSub(b, a)) /\ FSub(b, a) # <<1, EpsilonInv>>

Pt(x, y) == [x |-> Int2F(x), y |-> Int2F(y)]

(***************************************************************************)
(* The bundled copy (unnamed/part_001).                                    *)
(***************************************************************************)
Cross(point, clipEdgeStart, clipEdgeEnd) ==
    LET edge_x == FSub(clipEdgeEnd.x, clipEdgeStart.x)
        edge_y == FSub(clipEdgeEnd.y, clipEdgeStart.y)
        point_x == FSub(point.x, clipEdgeStart.x)
        point_y == FSub(point.y, clipEdgeStart.y)
    IN FSub(FMul(edge_x, point_y), FMul(edge_y, point_x))

isInside_flipped(point, clipEdgeStart, clipEdgeEnd) ==
    FLe(Cross(point, clipEdgeStart, clipEdgeEnd), FZero)

isInside_strict(point, clipEdgeStart, clipEdgeEnd) ==
    FLt(FZero, Cross(point, clipEdgeStart, clipEdgeEnd))

isInside(point, clipEdgeStart, clipEdgeEnd) ==
    FLe(FZero, Cross(point, clipEdgeStart, clipEdgeEnd))

isOnSegment(p, s, e) ==
    IF \/ FLtMinusEps(p.x, FMin(s.x, e.x)) \/ FLtMinusEps(FMax(s.x, e.x), p.x)
       \/ FLtMinusEps(p.y, FMin(s.y, e.y)) \/ FLtMinusEps(FMax(s.y, e.y), p.y)
    THEN FALSE
    ELSE IF FBelowEps(FAbs(FSub(s.x, e.x)))
    THEN FBelowEps(FAbs(FSub(p.x, s.x)))
    ELSE IF FBelowEps(FAbs(FSub(s.y, e.y)))
    THEN FBelowEps(FAbs(FSub(p.y, s.y)))
    ELSE IF p.x = s.x
    \* slope1 is 0/0 = NaN or k/0 = an infinity: no comparison with it is true
    THEN FALSE
    ELSE LET slope1 == FDiv(FSub(p.y, s.y), FSub(p.x, s.x))
             slope2 == FDiv(FSub(e.y, s.y), FSub(e.x, s.x))
         IN FBelowEps(FAbs(FSub(slope1, slope2)))

\* null: a value that is no point (no fraction has denominator 0)
None == [x |-> <<0, 0>>, y |-> <<0, 0>>]

\* the coefficients of the line A x + B y + C = 0 through s and e
LineA(s, e) == FSub(e.y, s.y)

LineB(s, e) == FSub(s.x, e.x)

LineC(s, e) == FSub(FMul(e.x, s.y), FMul(s.x, e.y))

Det(A1, B1, A2, B2) == FSub(FMul(A1, B2), FMul(A2, B1))

SolveX(B1, C1, B2, C2, det) == FDiv(FSub(FMul(B1, C2), FMul(B2, C1)), det)

SolveY(A1, C1, A2, C2, det) == FDiv(FSub(FMul(A2, C1), FMul(A1, C2)), det)

\* the last test of computeIntersection, on the solution p
OnBoth(p, s, e, clipStart, clipEnd) ==
    IF isOnSegment(p, s, e) /\ isOnSegment(p, clipStart, clipEnd) THEN p ELSE None

\* computeIntersection from the determinant on
Solve(s, e, clipStart, clipEnd, A1, B1, C1, A2, B2, C2, det) ==
    IF FBelowEps(FAbs(det))
    THEN None
    ELSE OnBoth([x |-> SolveX(B1, C1, B2, C2, det), y |-> SolveY(A1, C1, A2, C2, det)],
                s, e, clipStart, clipEnd)

Lines(s, e, clipStart, clipEnd, A1, B1, C1, A2, B2, C2) ==
    Solve(s, e, clipStart, clipEnd, A1, B1, C1, A2, B2, C2, Det(A1, B1, A2, B2))

computeIntersection(s, e, clipStart, clipEnd) ==
    Lines(s, e, clipStart, clipEnd,
          LineA(s, e), LineB(s, e), LineC(s, e),
          LineA(clipStart, clipEnd), LineB(clipStart, clipEnd), LineC(clipStart, clipEnd))

\* An object is told from another with equal fields by the field ref, which
\* the caller's points carry where sharing is followed (the reference the
\* caller holds: 1, 2, ... for the points handed to clip, 0 for a point the
\* clipper made and put on a list it returns); an object only the ledger
\* holds has no ref.  Points without ref are plain values.

\* {...p}, and an element of JSON.parse(JSON.stringify(polygon))
Spread(p) == [x |-> p.x, y |-> p.y]

\* JSON.parse(JSON.stringify(polygon))
DeepCopy(polygon) == [k \in 1..Len(polygon) |-> Spread(polygon[k])]

\* {...nextPoint} pushed on outputList: a new object, on the returned list
Fresh(p) == IF "ref" \in DOMAIN p THEN [x |-> p.x, y |-> p.y, ref |-> 0] ELSE p

\* the object computeIntersection returns for the edge from s: it is pushed
\* on outputList as it is
NewPoint(intersection, s) ==
    IF intersection # None /\ "ref" \in DOMAIN s
    THEN [x |-> intersection.x, y |-> intersection.y, ref |-> 0]
    ELSE intersection

\* vertex: {...vertex}
Action(type, vertex, reason) == [type |-> type, vertex |-> Spread(vertex), reason |-> reason]

\* acc is the triple of outputList, edgeStepDetails.intersections and
\* edgeStepDetails.actions
AddVertex(acc, vertex, reason) ==
    [acc EXCEPT !.out = Append(@, vertex),
                !.actions = Append(@, Action("ADD_VERTEX", vertex, reason))]

\* if (intersection) { push it }
AddIntersection(acc, intersection, reason) ==
    IF intersection # None
    THEN [acc EXCEPT !.out = Append(@, intersection),
                     !.intersections = Append(@, Spread(intersection)),
                     !.actions = Append(@, Action("ADD_INTERSECTION", intersection, reason))]
    ELSE acc

\* the both-outside case logged as a vertex added
SkipVertex_logsAdd(acc, vertex) ==
    [acc EXCEPT !.actions = Append(@, Action("ADD_VERTEX", vertex, "Both endpoints outside"))]

SkipVertex(acc, vertex) ==
    [acc EXCEPT !.actions = Append(@, Action("SKIP_VERTEX", vertex, "Both endpoints outside"))]

\* the cases with the far endpoint pushed when the edge leaves the inside
EdgeCase_keepsLeaving(acc, nextPoint, currentInside, nextInside, intersection) ==
    IF currentInside
    THEN AddVertex(acc, Fresh(nextPoint), "Both endpoints inside")
    ELSE IF ~currentInside /\ nextInside
    THEN AddVertex(AddIntersection(acc, intersection, "Moving from outside to inside"),
                   Fresh(nextPoint), "Second endpoint inside")
    ELSE SkipVertex(acc, nextPoint)

\* the four cases of one iteration of the loop of clipAgainstEdge;
\* intersection is computed in the two cases that use it
EdgeCase(acc, nextPoint, currentInside, nextInside, intersection) ==
    IF currentInside /\ nextInside
    THEN AddVertex(acc, Fresh(nextPoint), "Both endpoints inside")
    ELSE IF currentInside /\ ~nextInside
    THEN AddIntersection(acc, intersection, "Moving from inside to outside")
    ELSE IF ~currentInside /\ nextInside
    THEN AddVertex(AddIntersection(acc, intersection, "Moving from outside to inside"),
                   Fresh(nextPoint), "Second endpoint inside")
    ELSE SkipVertex(acc, nextPoint)

\* the iteration pushing the near endpoint of the edge, not the far one
EdgeVisit_emitsCurrent(acc, currentPoint, nextPoint, clipEdgeStart, clipEdgeEnd) ==
    EdgeCase(acc, currentPoint,
             isInside(currentPoint, clipEdgeStart, clipEdgeEnd),
             isInside(nextPoint, clipEdgeStart, clipEdgeEnd),
             NewPoint(computeIntersection(currentPoint, nextPoint, clipEdgeStart, clipEdgeEnd),
                      currentPoint))

\* one iteration of the loop of clipAgainstEdge
EdgeVisit(acc, currentPoint, nextPoint, clipEdgeStart, clipEdgeEnd) ==
    EdgeCase(acc, nextPoint,
             isInside(currentPoint, clipEdgeStart, clipEdgeEnd),
             isInside(nextPoint, clipEdgeStart, clipEdgeEnd),
             NewPoint(computeIntersection(currentPoint, nextPoint, clipEdgeStart, clipEdgeEnd),
                      currentPoint))

RECURSIVE EdgeLoop(_, _, _, _, _)
EdgeLoop(acc, i, subjectPolygon, clipEdgeStart, clipEdgeEnd) ==
    IF i > Len(subjectPolygon)
    THEN acc
    ELSE EdgeLoop(EdgeVisit(acc, subjectPolygon[i], subjectPolygon[(i % Len(subjectPolygon)) + 1],
                            clipEdgeStart, clipEdgeEnd),
                  i + 1, subjectPolygon, clipEdgeStart, clipEdgeEnd)

EmptyAcc == [out |-> <<>>, intersections |-> <<>>, actions |-> <<>>]

\* edgeStepDetails keeping the polygon it was given, not a copy of it
Step_keepsInput(clipEdgeStart, clipEdgeEnd, inputPolygon, acc) ==
    [clipEdge |-> [start |-> Spread(clipEdgeStart), end |-> Spread(clipEdgeEnd)],
     inputPolygon |-> inputPolygon,
     outputPolygon |-> DeepCopy(acc.out),
     intersections |-> acc.intersections,
     actions |-> acc.actions]

\* edgeStepDetails when it is pushed
Step(clipEdgeStart, clipEdgeEnd, inputPolygon, acc) ==
    [clipEdge |-> [start |-> Spread(clipEdgeStart), end |-> Spread(clipEdgeEnd)],
     inputPolygon |-> DeepCopy(inputPolygon),
     outputPolygon |-> DeepCopy(acc.out),
     intersections |-> acc.intersections,
     actions |-> acc.actions]

\* clipAgainstEdge returning the polygon it was given
Pass_returnsInput(clipEdgeStart, clipEdgeEnd, inputPolygon, acc) ==
    [out |-> inputPolygon, pushed |-> <<Step(clipEdgeStart, clipEdgeEnd, inputPolygon, acc)>>]

\* the end of clipAgainstEdge: the returned outputList and the step pushed
Pass(clipEdgeStart, clipEdgeEnd, inputPolygon, acc) ==
    [out |-> acc.out, pushed |-> <<Step(clipEdgeStart, clipEdgeEnd, inputPolygon, acc)>>]

\* clipAgainstEdge returns outputList and pushes at most one step: the
\* value is the pair of the returned polygon and the sequence of steps pushed
clipAgainstEdge(subjectPolygon, clipEdgeStart, clipEdgeEnd) ==
    IF Len(subjectPolygon) < 3
    THEN [out |-> <<>>, pushed |-> <<>>]
    ELSE Pass(clipEdgeStart, clipEdgeEnd, subjectPolygon,
              EdgeLoop(EmptyAcc, 1, subjectPolygon, clipEdgeStart, clipEdgeEnd))

\* the loop of clip over the edges of clipPolygon, from edge i on: polygon is
\* the running outputList, pushed the steps in the ledger so far; the value
\* is the returned polygon and the ledger
RECURSIVE ClipLoop(_, _, _, _)
\* the early stop returning the running polygon instead of []
ClipEdgeDone_keepsShort(r, pushed, i, clipPolygon) ==
    IF Len(r.out) < 3
    THEN [result |-> r.out, steps |-> pushed \o r.pushed]
    ELSE ClipLoop(r.out, pushed \o r.pushed, i + 1, clipPolygon)

\* the body of the loop after clipAgainstEdge returned r
ClipEdgeDone(r, pushed, i, clipPolygon) ==
    IF Len(r.out) < 3
    THEN [result |-> <<>>, steps |-> pushed \o r.pushed]
    ELSE ClipLoop(r.out, pushed \o r.pushed, i + 1, clipPolygon)

\* the loop leaving out the last edge of the clip polygon
ClipLoop_skipsLast(polygon, pushed, i, clipPolygon) ==
    IF i >= Len(clipPolygon)
    THEN [result |-> polygon, steps |-> pushed]
    ELSE ClipEdgeDone(clipAgainstEdge(polygon, clipPolygon[i], clipPolygon[(i % Len(clipPolygon)) + 1]),
                      pushed, i, clipPolygon)

ClipLoop(polygon, pushed, i, clipPolygon) ==
    IF i > Len(clipPolygon)
    THEN [result |-> polygon, steps |-> pushed]
    ELSE ClipEdgeDone(clipAgainstEdge(polygon, clipPolygon[i], clipPolygon[(i % Len(clipPolygon)) + 1]),
                      pushed, i, clipPolygon)

\* clip without the length test on the clip polygon
clip_subjectOnly(subjectPolygon, clipPolygon) ==
    IF Len(subjectPolygon) < 3
    THEN [result |-> <<>>, steps |-> <<>>]
    ELSE ClipLoop(subjectPolygon, <<>>, 1, clipPolygon)

\* clip: the returned polygon and the ledger it leaves (this.steps is
\* emptied first, so the ledger does not depend on what it held before)
clip(subjectPolygon, clipPolygon) ==
    IF Len(subjectPolygon) < 3 \/ Len(clipPolygon) < 3
    THEN [result |-> <<>>, steps |-> <<>>]
    ELSE ClipLoop(subjectPolygon, <<>>, 1, clipPolygon)

(***************************************************************************)
(* The copy the page loads (static/js/sutherland-hodgman.js).              *)
(***************************************************************************)
isInsideStatic(point, clipEdgeStart, clipEdgeEnd) ==
    FLe(Cross(point, clipEdgeStart, clipEdgeEnd), FZero)

isOnSegmentStatic(p, s, e) ==
    /\ FLe(FMin(s.x, e.x), p.x) /\ FLe(p.x, FMax(s.x, e.x))
    /\ FLe(FMin(s.y, e.y), p.y) /\ FLe(p.y, FMax(s.y, e.y))

OnBothStatic(p, s, e, clipStart, clipEnd) ==
    IF isOnSegmentStatic(p, s, e) /\ isOnSegmentStatic(p, clipStart, clipEnd) THEN p ELSE None

SolveStatic(s, e, clipStart, clipEnd, A1, B1, C1, A2, B2, C2, det) ==
    IF det = FZero
    THEN None
    ELSE OnBothStatic([x |-> SolveX(B1, C1, B2, C2, det), y |-> SolveY(A1, C1, A2, C2, det)],
                      s, e, clipStart, clipEnd)

LinesStatic(s, e, clipStart, clipEnd, A1, B1, C1, A2, B2, C2) ==
    SolveStatic(s, e, clipStart, clipEnd, A1, B1, C1, A2, B2, C2, Det(A1, B1, A2, B2))

computeIntersectionStatic(s, e, clipStart, clipEnd) ==
    LinesStatic(s, e, clipStart, clipEnd,
                LineA(s, e), LineB(s, e), LineC(s, e),
                LineA(clipStart, clipEnd), LineB(clipStart, clipEnd), LineC(clipStart, clipEnd))

\* the four cases of one iteration of the loop of clipAgainstEdge
EdgeCaseStatic(acc, e, s_isInside, e_isInside, intersection) ==
    IF s_isInside /\ e_isInside
    THEN AddVertex(acc, e, "Both endpoints inside")
    ELSE IF ~s_isInside /\ e_isInside
    THEN AddVertex(AddIntersection(acc, intersection, "Moving from outside to inside"),
                   e, "Second endpoint inside")
    ELSE IF s_isInside /\ ~e_isInside
    THEN AddIntersection(acc, intersection, "Moving from inside to outside")
    ELSE SkipVertex(acc, e)

\* one iteration of the loop of clipAgainstEdge, on the edge from s to e
EdgeVisitStatic(acc, s, e, clipEdgeStart, clipEdgeEnd) ==
    EdgeCaseStatic(acc, e,
                   isInsideStatic(s, clipEdgeStart, clipEdgeEnd),
                   isInsideStatic(e, clipEdgeStart, clipEdgeEnd),
                   NewPoint(computeIntersectionStatic(s, e, clipEdgeStart, clipEdgeEnd), s))

RECURSIVE EdgeLoopStatic(_, _, _, _, _)
EdgeLoopStatic(acc, i, subjectPolygon, clipEdgeStart, clipEdgeEnd) ==
    IF i > Len(subjectPolygon)
    THEN acc
    ELSE EdgeLoopStatic(EdgeVisitStatic(acc,
                                        subjectPolygon[IF i = 1 THEN Len(subjectPolygon) ELSE i - 1],
                                        subjectPolygon[i], clipEdgeStart, clipEdgeEnd),
                        i + 1, subjectPolygon, clipEdgeStart, clipEdgeEnd)

clipAgainstEdgeStatic(subjectPolygon, clipEdgeStart, clipEdgeEnd) ==
    IF Len(subjectPolygon) = 0
    THEN Pass(clipEdgeStart, clipEdgeEnd, <<>>, EmptyAcc)
    ELSE Pass(clipEdgeStart, clipEdgeEnd, subjectPolygon,
              EdgeLoopStatic(EmptyAcc, 1, subjectPolygon, clipEdgeStart, clipEdgeEnd))

RECURSIVE ClipLoopStatic(_, _, _, _)
\* the body of the loop after clipAgainstEdge returned r
ClipEdgeDoneStatic(r, pushed, i, clipPolygon) ==
    ClipLoopStatic(r.out, pushed \o r.pushed, i + 1, clipPolygon)

ClipLoopStatic(polygon, pushed, i, clipPolygon) ==
    IF i > Len(clipPolygon)
    THEN [result |-> polygon, steps |-> pushed]
    ELSE ClipEdgeDoneStatic(clipAgainstEdgeStatic(polygon, clipPolygon[i],
                                                  clipPolygon[(i % Len(clipPolygon)) + 1]),
                            pushed, i, clipPolygon)

clipStatic(subjectPolygon, clipPolygon) ==
    IF Len(subjectPolygon) < 3 \/ Len(clipPolygon) < 3
    THEN [result |-> <<>>, steps |-> <<>>]
    ELSE ClipLoopStatic(subjectPolygon, <<>>, 1, clipPolygon)

(***************************************************************************)
(* The clipper object and its caller.                                      *)
(***************************************************************************)
VARIABLES
    copy,              \* which file the class SutherlandHodgman came from
    subjectPolygon,    \* the caller's subject polygon (CanvasManager.subjectPolygon)
    clipPolygon,       \* the caller's clip polygon (CanvasManager.clippingPolygon)
    steps,             \* this.steps
    currentStepIndex,  \* this.currentStepIndex
    lastCall,          \* the last call of clip: its arguments and the polygon it returned
    returned,          \* what the last ledger call (getStep, getNextStep) returned
    probe,             \* a call of isInside or computeIntersection on its own:
                       \* the arguments and, once made, the value returned
    canvas,            \* CanvasManager: resultPolygon, selectedPolygon, isDrawing
    disabled,          \* the disabled attribute of the four buttons
    animation,         \* AnimationController: stepByStepMode, timeline, currentStep,
                       \* and the checkbox and the text of the step indicator
    timers,            \* the callbacks waiting to run: setTimeout timers and
                       \* timelines, in the order they were registered
    presses,           \* Next Step presses since the last Run Clipping press
                       \* (-1: no run since the page was loaded or reset)
    uncaught           \* whether a handler has thrown a TypeError

\* the state of the page around the clipper
page == <<canvas, disabled, animation, timers, presses, uncaught>>

vars == <<copy, subjectPolygon, clipPolygon, steps, currentStepIndex, lastCall, returned, probe,
          page>>

Copies == {"bundled", "static"}

\* bounds of the inputs: the points of the grid 0..GridMaxX by 0..GridMaxY
GridMaxX == 2

GridMaxY == 2

GridPoints == {Pt(x, y) : x \in 0..GridMaxX, y \in 0..GridMaxY}

\* a total order on points, to list each triangle from its least vertex
Before(p, q) == p.x[1] < q.x[1] \/ (p.x[1] = q.x[1] /\ p.y[1] < q.y[1])

\* every triangle of grid points in both windings, listed from its least vertex
Triangles ==
    {t \in GridPoints \X GridPoints \X GridPoints :
        Before(t[1], t[2]) /\ Before(t[1], t[3]) /\ t[2] # t[3]}

Rotations(q) == {[k \in 1..Len(q) |-> q[((k + r - 1) % Len(q)) + 1]] : r \in 0..(Len(q) - 1)}

Reversed(q) == [k \in 1..Len(q) |-> q[Len(q) + 1 - k]]

Windings(q) == {q, Reversed(q)}

\* the shape with every first vertex and both windings
Listings(q) == UNION {Windings(r) : r \in Rotations(q)}

\* convex clip polygons, counter-clockwise for y up
Rectangle == <<Pt(0, 0), Pt(GridMaxX, 0), Pt(GridMaxX, GridMaxY), Pt(0, GridMaxY)>>

RightSquare == <<Pt(2, 0), Pt(3, 0), Pt(3, 1), Pt(2, 1)>>

SmallDiamond == <<Pt(2, 0), Pt(3, 1), Pt(2, 2), Pt(1, 1)>>

Corner == <<Pt(0, 0), Pt(2, 0), Pt(0, 2)>>

GridClips ==
    Windings(Rectangle) \cup Listings(RightSquare) \cup Windings(SmallDiamond) \cup Windings(Corner)

\* quadrilaterals: convex ones, two darts and one with a doubled vertex
Quads ==
    GridClips \cup
    UNION {Windings(q) : q \in { <<Pt(0, 0), Pt(3, 0), Pt(1, 1), Pt(0, 2)>>,
                                 <<Pt(0, 0), Pt(3, 1), Pt(0, 2), Pt(1, 1)>>,
                                 <<Pt(1, 1), Pt(1, 1), Pt(3, 0), Pt(3, 2)>> }}

\* polygons that are no polygon: fewer than 3 points
Short == {<<>>, <<Pt(0, 0)>>, <<Pt(0, 0), Pt(3, 0)>>}

\* the two scenarios with given coordinates, and a U around a square
Square == <<Pt(0, 0), Pt(4, 0), Pt(4, 4), Pt(0, 4)>>

Diamond == <<Pt(2, -2), Pt(6, 2), Pt(2, 6), Pt(-2, 2)>>

UShape == <<Pt(0, 0), Pt(10, 0), Pt(10, 5), Pt(8, 5), Pt(8, 2), Pt(2, 2), Pt(2, 5), Pt(0, 5)>>

InnerSquare == <<Pt(4, 4), Pt(6, 4), Pt(6, 6), Pt(4, 6)>>

Scenarios ==
    (Windings(Square) \X (Listings(Diamond) \cup Listings(Square)))
    \cup (Windings(UShape) \X Listings(InnerSquare))

\* the arguments of the clip calls whose geometry is examined
Inputs ==
    ((Triangles \cup Quads) \X GridClips)
    \cup Scenarios
    \cup (Short \X (GridClips \cup Short))
    \cup (Quads \X Short)

\* the arguments of the clip calls made between ledger calls
FewInputs ==
    (Listings(RightSquare) \X Listings(Rectangle))
    \cup (Short \X Windings(Corner))
    \cup (Windings(Corner) \X Short)
    \cup (Short \X Short)

NoCall == [made |-> FALSE, subject |-> <<>>, clip |-> <<>>, result |-> <<>>]

NoProbe == [fn |-> "none", args |-> <<>>, value |-> None]

\* the text of the step indicator: what it says, about which edge, of how many
Message(text, edge, total) == [text |-> text, edge |-> edge, total |-> total]

\* the callback script.js registers on load: it enables both Draw buttons
\* after a second
EnableDraw == [kind |-> "enableDraw", delay |-> 1000]

Buttons(drawSubject, drawClipping, runClipping, nextStep) ==
    [drawSubject |-> drawSubject, drawClipping |-> drawClipping,
     runClipping |-> runClipping, nextStep |-> nextStep]

\* the page once DOMContentLoaded has run: the constructors of CanvasManager
\* and AnimationController, the attributes of index.html,
\* updateButtonState('default') and the timer of script.js
PageLoaded ==
    /\ canvas = [resultPolygon |-> <<>>, selectedPolygon |-> "null", isDrawing |-> FALSE]
    /\ disabled = Buttons(FALSE, FALSE, TRUE, TRUE)
    /\ animation = [stepByStepMode |-> FALSE, checked |-> FALSE, timeline |-> FALSE,
                    currentStep |-> None, indicator |-> Message("Ready", 0, 0)]
    /\ timers = <<EnableDraw>>
    /\ presses = -1
    /\ uncaught = FALSE

InitWith(arguments) ==
    /\ copy \in Copies
    /\ \E pair \in arguments : subjectPolygon = pair[1] /\ clipPolygon = pair[2]
    /\ steps = <<>>
    /\ currentStepIndex = -1
    /\ lastCall = NoCall
    /\ returned = None
    /\ PageLoaded
    /\ probe = NoProbe

Init == InitWith(FewInputs)

InitClip == InitWith(Inputs)

isInsideOf(c, p, a, b) == IF c = "bundled" THEN isInside(p, a, b) ELSE isInsideStatic(p, a, b)

clipOf(c, subject, clipP) ==
    IF c = "bundled" THEN clip(subject, clipP) ELSE clipStatic(subject, clipP)

\* a clip call that leaves its result in the caller's subject polygon
ClipReturns_inPlace(r) ==
    /\ steps' = r.steps
    /\ currentStepIndex' = -1
    /\ lastCall' = [made |-> TRUE, subject |-> subjectPolygon, clip |-> clipPolygon,
                    result |-> r.result]
    /\ subjectPolygon' = r.result
    /\ UNCHANGED <<copy, probe, page, clipPolygon, returned>>

\* the effect of a clip call that returned r.result and left r.steps
ClipReturns(r) ==
    /\ steps' = r.steps
    /\ currentStepIndex' = -1
    /\ lastCall' = [made |-> TRUE, subject |-> subjectPolygon, clip |-> clipPolygon,
                    result |-> r.result]
    /\ UNCHANGED <<copy, probe, page, subjectPolygon, clipPolygon, returned>>

\* clipper.clip(subjectPolygon, clipPolygon)
Clip == ClipReturns(clipOf(copy, subjectPolygon, clipPolygon))

\* getStep taking index 0 for out of range
GetStep_fromOne(index) ==
    /\ returned' = IF index <= 0 \/ index >= Len(steps) THEN None ELSE steps[index + 1]
    /\ UNCHANGED <<copy, probe, page, subjectPolygon, clipPolygon, steps, currentStepIndex, lastCall>>

\* clipper.getStep(index) for an index around the ledger's range
GetStep(index) ==
    /\ returned' = IF index < 0 \/ index >= Len(steps) THEN None ELSE steps[index + 1]
    /\ UNCHANGED <<copy, probe, page, subjectPolygon, clipPolygon, steps, currentStepIndex, lastCall>>

\* getNextStep moving the cursor once more at the end of the ledger
GetNextStep_pastEnd ==
    /\ IF currentStepIndex < Len(steps)
       THEN /\ currentStepIndex' = currentStepIndex + 1
            /\ returned' = IF currentStepIndex' < Len(steps) THEN steps[currentStepIndex' + 1] ELSE None
       ELSE /\ returned' = None
            /\ UNCHANGED currentStepIndex
    /\ UNCHANGED <<copy, probe, page, subjectPolygon, clipPolygon, steps, lastCall>>

\* clipper.getNextStep()
GetNextStep ==
    /\ IF currentStepIndex < Len(steps) - 1
       THEN /\ currentStepIndex' = currentStepIndex + 1
            /\ returned' = steps[currentStepIndex' + 1]
       ELSE /\ returned' = None
            /\ UNCHANGED currentStepIndex
    /\ UNCHANGED <<copy, probe, page, subjectPolygon, clipPolygon, steps, lastCall>>

\* clipper.resetSteps()
ResetSteps ==
    /\ currentStepIndex' = -1
    /\ UNCHANGED <<copy, probe, page, subjectPolygon, clipPolygon, steps, lastCall, returned>>

\* canvasManager.reset(): the caller empties both polygons
CanvasReset ==
    /\ subjectPolygon' = <<>>
    /\ clipPolygon' = <<>>
    /\ UNCHANGED <<copy, probe, page, steps, currentStepIndex, lastCall, returned>>

Next ==
    \/ Clip
    \/ \E index \in -1..(Len(steps) + 1) : GetStep(index)
    \/ GetNextStep
    \/ ResetSteps
    \/ CanvasReset

Spec == Init /\ [][Next]_vars

\* the clip calls alone, over all the inputs
NextClip == Clip

SpecClip == InitClip /\ [][NextClip]_vars

\* the arguments of the clip calls of a clipper that is used again and again
Reruns ==
    { <<Corner, Rectangle>>, <<Rectangle, Corner>>,
      <<Reversed(Corner), Reversed(Rectangle)>>, <<Reversed(Rectangle), Reversed(Corner)>>,
      <<<<Pt(0, 0)>>, Corner>> }

InitRuns == InitWith(Reruns)

\* a clip call that forgets neither the ledger nor the cursor of the run before
ClipCalled_keepsLedger(subject, clipP, r) ==
    /\ steps' = steps \o r.steps
    /\ currentStepIndex' = currentStepIndex
    /\ lastCall' = [made |-> TRUE, subject |-> subject, clip |-> clipP, result |-> r.result]
    /\ subjectPolygon' = subject
    /\ clipPolygon' = clipP
    /\ UNCHANGED <<copy, probe, page, returned>>

\* the effect of clipper.clip(subject, clipP) that returned r.result and left
\* r.steps: this.steps and this.currentStepIndex are set anew
ClipCalled(subject, clipP, r) ==
    /\ steps' = r.steps
    /\ currentStepIndex' = -1
    /\ lastCall' = [made |-> TRUE, subject |-> subject, clip |-> clipP, result |-> r.result]
    /\ subjectPolygon' = subject
    /\ clipPolygon' = clipP
    /\ UNCHANGED <<copy, probe, page, returned>>

\* clipper.clip called with polygons of the caller's choice
ClipOn(pair) == ClipCalled(pair[1], pair[2], clipOf(copy, pair[1], pair[2]))

NextRuns ==
    \/ \E pair \in Reruns : ClipOn(pair)
    \/ \E index \in -1..(Len(steps) + 1) : GetStep(index)
    \/ GetNextStep
    \/ ResetSteps

\* one clipper, called again and again with changing polygons
SpecRuns == InitRuns /\ [][NextRuns]_vars

(***************************************************************************)
(* isInside and computeIntersection called on their own, on points of the  *)
(* grid.                                                                   *)
(***************************************************************************)
ProbeArgs == (GridPoints \X GridPoints \X GridPoints)
                 \cup (GridPoints \X GridPoints \X GridPoints \X GridPoints)

InitProbe ==
    /\ copy \in Copies
    /\ subjectPolygon = <<>> /\ clipPolygon = <<>>
    /\ steps = <<>>
    /\ currentStepIndex = -1
    /\ lastCall = NoCall
    /\ returned = None
    /\ PageLoaded
    /\ \E args \in ProbeArgs : probe = [fn |-> "none", args |-> args, value |-> None]

computeIntersectionOf(c, s, e, clipStart, clipEnd) ==
    IF c = "bundled" THEN computeIntersection(s, e, clipStart, clipEnd)
    ELSE computeIntersectionStatic(s, e, clipStart, clipEnd)

\* clipper.isInside(point, clipEdgeStart, clipEdgeEnd)
IsInsideCall ==
    /\ probe.fn = "none" /\ Len(probe.args) = 3
    /\ probe' = [probe EXCEPT !.fn = "isInside",
                              !.value = isInsideOf(copy, probe.args[1], probe.args[2], probe.args[3])]
    /\ UNCHANGED <<copy, page, subjectPolygon, clipPolygon, steps, currentStepIndex, lastCall, returned>>

\* clipper.computeIntersection(s, e, clipStart, clipEnd)
ComputeIntersectionCall ==
    /\ probe.fn = "none" /\ Len(probe.args) = 4
    /\ probe' = [probe EXCEPT !.fn = "computeIntersection",
                              !.value = computeIntersectionOf(copy, probe.args[1], probe.args[2],
                                                              probe.args[3], probe.args[4])]
    /\ UNCHANGED <<copy, page, subjectPolygon, clipPolygon, steps, currentStepIndex, lastCall, returned>>

NextProbe ==
    \/ IsInsideCall
    \/ ComputeIntersectionCall

SpecProbe == InitProbe /\ [][NextProbe]_vars

(***************************************************************************)
(* The caller's objects followed by reference: the points handed to clip   *)
(* carry ref, and the caller writes to a point it holds afterwards.        *)
(***************************************************************************)
\* the polygon with its points held by the caller as base+1, base+2, ...
Held(polygon, base) ==
    [k \in 1..Len(polygon) |-> [x |-> polygon[k].x, y |-> polygon[k].y, ref |-> base + k]]

HeldPair(pair) == <<Held(pair[1], 0), Held(pair[2], Len(pair[1]))>>

SharedInputs ==
    { HeldPair(pair) : pair \in { <<Rectangle, SmallDiamond>>,
                                  <<Reversed(Rectangle), Reversed(SmallDiamond)>>,
                                  <<Corner, Rectangle>>,
                                  <<Reversed(Corner), Reversed(Rectangle)>> } }

MaxRef == 8

\* the values the caller writes into a point
MovedTo == { Pt(1, 1) }

InitShared == InitWith(SharedInputs)

\* the point after the caller wrote p's coordinates into the object ref
Moved(q, ref, p) ==
    IF "ref" \in DOMAIN q /\ q.ref = ref THEN [q EXCEPT !.x = p.x, !.y = p.y] ELSE q

MovedIn(polygon, ref, p) == [k \in 1..Len(polygon) |-> Moved(polygon[k], ref, p)]

MovedStep(step, ref, p) ==
    [clipEdge |-> [start |-> Moved(step.clipEdge.start, ref, p),
                   end |-> Moved(step.clipEdge.end, ref, p)],
     inputPolygon |-> MovedIn(step.inputPolygon, ref, p),
     outputPolygon |-> MovedIn(step.outputPolygon, ref, p),
     intersections |-> MovedIn(step.intersections, ref, p),
     actions |-> [k \in 1..Len(step.actions) |->
                     [step.actions[k] EXCEPT !.vertex = Moved(@, ref, p)]]]

\* the caller assigns x and y of a point it holds (one of the subject
\* polygon, of the clip polygon or of the polygon clip returned): every
\* place that holds the same object shows the new value.  lastCall keeps
\* the arguments as they were when clip was called.
MutatePoint(ref, p) ==
    /\ lastCall.made
    /\ subjectPolygon' = MovedIn(subjectPolygon, ref, p)
    /\ clipPolygon' = MovedIn(clipPolygon, ref, p)
    /\ lastCall' = [lastCall EXCEPT !.result = MovedIn(@, ref, p)]
    /\ steps' = [n \in 1..Len(steps) |-> MovedStep(steps[n], ref, p)]
    /\ returned' = IF returned = None THEN None ELSE MovedStep(returned, ref, p)
    /\ UNCHANGED <<copy, probe, page, currentStepIndex>>

NextShared ==
    \/ Clip
    \/ \E ref \in 0..MaxRef, p \in MovedTo : MutatePoint(ref, p)

SpecShared == InitShared /\ [][NextShared]_vars

(***************************************************************************)
(* clipAgainstEdge called on its own: it pushes onto the ledger that is    *)
(* there, which only clip empties.                                         *)
(***************************************************************************)
MaxLedger == 4

EdgePolygons == { <<>>, <<Pt(0, 0), Pt(1, 0)>>, Corner }

\* the clip edges of the calls: the first two edges of Rectangle
EdgeStarts == 1..2

InitEdge == InitWith({ <<Corner, Rectangle>>, <<Reversed(Corner), Reversed(Rectangle)>> })

clipAgainstEdgeOf(c, polygon, clipEdgeStart, clipEdgeEnd) ==
    IF c = "bundled" THEN clipAgainstEdge(polygon, clipEdgeStart, clipEdgeEnd)
    ELSE clipAgainstEdgeStatic(polygon, clipEdgeStart, clipEdgeEnd)

\* the effect of a call of clipAgainstEdge that returned r.out and pushed r.pushed
ClipAgainstEdgeReturns(polygon, clipEdgeStart, clipEdgeEnd, r) ==
    /\ Len(steps) < MaxLedger
    /\ steps' = steps \o r.pushed
    /\ probe' = [fn |-> "clipAgainstEdge", args |-> <<polygon, clipEdgeStart, clipEdgeEnd>>,
                 value |-> r.out]
    /\ UNCHANGED <<copy, page, subjectPolygon, clipPolygon, currentStepIndex, lastCall, returned>>

\* clipper.clipAgainstEdge(polygon, clipEdgeStart, clipEdgeEnd)
ClipAgainstEdgeCall(polygon, clipEdgeStart, clipEdgeEnd) ==
    ClipAgainstEdgeReturns(polygon, clipEdgeStart, clipEdgeEnd,
                           clipAgainstEdgeOf(copy, polygon, clipEdgeStart, clipEdgeEnd))

NextEdge ==
    \/ Clip
    \/ \E polygon \in EdgePolygons, k \in EdgeStarts :
          ClipAgainstEdgeCall(polygon, Rectangle[k], Rectangle[k + 1])

SpecEdge == InitEdge /\ [][NextEdge]_vars

(***************************************************************************)
(* The page: the buttons, the canvas and the animation controller.  The    *)
(* copy "bundled" runs the AnimationController and the clipper of          *)
(* unnamed/part_001, the copy "static" those of static/js; canvas.js and   *)
(* script.js exist once.  A disabled button receives no click.  The        *)
(* callbacks wait in one queue in the order of their registration, and one *)
(* runs before an older one only if its delay is shorter.  The callbacks   *)
(* of a timeline are a second apart: the timeline takes its place in the   *)
(* queue anew after each.  What is drawn on the canvas element is not      *)
(* part of the state.                                                      *)
(***************************************************************************)
\* bound: the callbacks that may wait at one time
MaxTimers == 2

\* the clipping polygon the user draws
Wedge == <<Pt(0, 0), Pt(2, 0), Pt(2, 2)>>

\* the polygons the user draws, vertex by vertex: the clipping polygon in
\* either winding
Sketches(type) == IF type = "subject" THEN {Corner} ELSE {Wedge, Reversed(Wedge)}

\* canvasManager.subjectPolygon or canvasManager.clippingPolygon
Drawn(type) == IF type = "subject" THEN subjectPolygon ELSE clipPolygon

\* both polygons have at least 3 points
Complete == Len(subjectPolygon) >= 3 /\ Len(clipPolygon) >= 3

\* the points the user clicks next: the next vertex of the sketch, or the
\* first point again to close the polygon
Aims(type) ==
    {sketch[Len(Drawn(type)) + 1] :
        sketch \in {q \in Sketches(type) : /\ Len(Drawn(type)) < Len(q)
                                            /\ SubSeq(q, 1, Len(Drawn(type))) = Drawn(type)}}
    \cup (IF Len(Drawn(type)) > 2 THEN {Drawn(type)[1]} ELSE {})

\* getDistance(point, firstPoint) < snapToFirstDistance: the points of the
\* grid are further apart than the snap distance
Near(point, firstPoint) == point = firstPoint

\* updateButtonState leaving Run Clipping enabled whenever a polygon is finished
updateButtonState_readyRuns(state, b, complete, checked) ==
    CASE state = "default" -> Buttons(FALSE, FALSE, TRUE, TRUE)
      [] state \in {"drawingSubject", "drawingClipping"} -> Buttons(TRUE, TRUE, TRUE, TRUE)
      [] state = "ready" -> Buttons(FALSE, FALSE, FALSE, TRUE)
      [] state = "running" -> Buttons(TRUE, TRUE, TRUE, IF checked THEN b.nextStep ELSE TRUE)

\* updateButtonState(state) on the buttons b
updateButtonState(state, b, complete, checked) ==
    CASE state = "default" -> Buttons(FALSE, FALSE, TRUE, TRUE)
      [] state \in {"drawingSubject", "drawingClipping"} -> Buttons(TRUE, TRUE, TRUE, TRUE)
      [] state = "ready" -> Buttons(FALSE, FALSE, ~complete, TRUE)
      [] state = "running" -> Buttons(TRUE, TRUE, TRUE, IF checked THEN b.nextStep ELSE TRUE)

\* a click on Draw Subject Polygon or Draw Clipping Polygon:
\* startDrawingPolygon(type), then updateButtonState
DrawClick(type) ==
    /\ ~(IF type = "subject" THEN disabled.drawSubject ELSE disabled.drawClipping)
    /\ canvas' = [resultPolygon |-> <<>>, selectedPolygon |-> type, isDrawing |-> TRUE]
    /\ subjectPolygon' = IF type = "subject" THEN <<>> ELSE subjectPolygon
    /\ clipPolygon' = IF type = "clipping" THEN <<>> ELSE clipPolygon
    /\ disabled' = updateButtonState(IF type = "subject" THEN "drawingSubject" ELSE "drawingClipping",
                                     [disabled EXCEPT !.runClipping = TRUE], FALSE,
                                     animation.checked)
    /\ UNCHANGED <<copy, probe, steps, currentStepIndex, lastCall, returned,
                   animation, timers, presses, uncaught>>

\* finishPolygon() and the polygonCompleted listener of script.js
FinishPolygon ==
    /\ canvas' = [canvas EXCEPT !.isDrawing = FALSE, !.selectedPolygon = "null"]
    /\ disabled' = updateButtonState("ready",
                                     [disabled EXCEPT !.runClipping = IF Complete THEN FALSE ELSE @],
                                     Complete, animation.checked)
    /\ UNCHANGED <<subjectPolygon, clipPolygon>>

\* the end of addPoint: the point is pushed to the selected polygon
PushPoint(point) ==
    /\ subjectPolygon' = IF canvas.selectedPolygon = "subject"
                         THEN Append(subjectPolygon, point) ELSE subjectPolygon
    /\ clipPolygon' = IF canvas.selectedPolygon = "clipping"
                      THEN Append(clipPolygon, point) ELSE clipPolygon
    /\ UNCHANGED <<canvas, disabled>>

\* a mousedown or touchstart on the canvas: addPoint(x, y)
CanvasClick(point) ==
    /\ canvas.isDrawing /\ canvas.selectedPolygon # "null"
    /\ IF Len(Drawn(canvas.selectedPolygon)) > 2 /\ Near(point, Drawn(canvas.selectedPolygon)[1])
       THEN FinishPolygon
       ELSE PushPoint(point)
    /\ UNCHANGED <<copy, probe, steps, currentStepIndex, lastCall, returned,
                   animation, timers, presses, uncaught>>

\* the callbacks runFullAnimation adds to its timeline for the steps from i on,
\* and onComplete at the end
RECURSIVE Frames(_, _)
Frames(ledger, i) ==
    IF i > Len(ledger)
    THEN << [cb |-> "complete", edge |-> i] >>
    ELSE << [cb |-> "edge", edge |-> i] >>
         \o (IF Len(ledger[i].intersections) > 0
             THEN << [cb |-> "intersections", edge |-> i] >> ELSE <<>>)
         \o << [cb |-> "output", edge |-> i] >>
         \o Frames(ledger, i + 1)

\* gsap.timeline of runFullAnimation: held while this.timeline refers to it;
\* its first callback runs at once
Timeline(ledger) ==
    [kind |-> "timeline", delay |-> 0, held |-> TRUE, ledger |-> ledger,
     frames |-> Frames(ledger, 1)]

\* this.timeline is assigned anew: a timeline still running is no longer held
Orphaned(ts) ==
    [k \in DOMAIN ts |-> IF ts[k].kind = "timeline" THEN [ts[k] EXCEPT !.held = FALSE] ELSE ts[k]]

\* runClippingAnimation() past its guard, clip having returned r
RunClipping(r) ==
    /\ steps' = r.steps
    /\ currentStepIndex' = -1
    /\ lastCall' = [made |-> TRUE, subject |-> subjectPolygon, clip |-> clipPolygon,
                    result |-> r.result]
    /\ presses' = 0
    /\ IF animation.stepByStepMode
       THEN /\ animation' = [animation EXCEPT !.indicator = Message("Step 1: Ready to start clipping", 0, 0)]
            /\ disabled' = updateButtonState("running", [disabled EXCEPT !.nextStep = FALSE],
                                             Complete, animation.checked)
            /\ UNCHANGED timers
       ELSE /\ animation' = [animation EXCEPT !.timeline = TRUE,
                                              !.indicator = Message("Starting Sutherland-Hodgman clipping...", 0, 0)]
            /\ timers' = Append(Orphaned(timers), Timeline(r.steps))
            /\ disabled' = updateButtonState("running", disabled, Complete, animation.checked)
    /\ UNCHANGED <<copy, probe, subjectPolygon, clipPolygon, returned, canvas, uncaught>>

\* a click on Run Clipping: runClippingAnimation(), then updateButtonState('running')
RunClick ==
    /\ ~disabled.runClipping
    /\ Len(timers) < MaxTimers
    /\ IF ~Complete
       THEN /\ animation' = [animation EXCEPT !.indicator = Message("Need both polygons to run clipping", 0, 0)]
            /\ disabled' = updateButtonState("running", disabled, Complete, animation.checked)
            /\ UNCHANGED <<copy, probe, subjectPolygon, clipPolygon, steps, currentStepIndex,
                           lastCall, returned, canvas, timers, presses, uncaught>>
       ELSE RunClipping(clipOf(copy, subjectPolygon, clipPolygon))

\* a change of the Step-by-Step checkbox: setStepByStepMode(checked)
ToggleChange ==
    /\ animation' = [animation EXCEPT !.checked = ~animation.checked,
                                      !.stepByStepMode = ~animation.checked]
    /\ disabled' = [disabled EXCEPT !.nextStep = animation.checked]
    /\ UNCHANGED <<copy, probe, subjectPolygon, clipPolygon, steps, currentStepIndex,
                   lastCall, returned, canvas, timers, presses, uncaught>>

\* getNextStep handing out the step after the cursor without moving the cursor
getNextStep_staysPut(ledger, index) ==
    IF index < Len(ledger) - 1
    THEN [index |-> index, step |-> ledger[index + 2]]
    ELSE [index |-> index, step |-> None]

\* clipper.getNextStep(): the cursor it leaves and the step it returns
getNextStep(ledger, index) ==
    IF index < Len(ledger) - 1
    THEN [index |-> index + 1, step |-> ledger[index + 2]]
    ELSE [index |-> index, step |-> None]

\* clipper.getStep(index) on a ledger
getStep(ledger, index) ==
    IF index < 0 \/ index >= Len(ledger) THEN None ELSE ledger[index + 1]

\* the timer nextStep sets for the intersections of a step
Intersections(step, edge) ==
    [kind |-> "intersections", delay |-> 1000, step |-> step, edge |-> edge]

\* the timer set inside it for the output polygon of the step
Output(step, edge) == [kind |-> "output", delay |-> 1000, step |-> step, edge |-> edge]

\* the timer that highlights and flashes the final result
Highlight(resultPolygon) == [kind |-> "highlight", delay |-> 500, polygon |-> resultPolygon]

\* the timer set inside it that highlights the result once more
Rehighlight == [kind |-> "rehighlight", delay |-> 300]

\* the Next Step presses since Run Clipping, counted up to one past the final one
Pressed == IF presses < 0 \/ presses > Len(steps) THEN presses ELSE presses + 1

\* nextStep() when getNextStep returned a step
PresentStep(next) ==
    /\ currentStepIndex' = next.index
    /\ animation' = [animation EXCEPT !.currentStep = next.step,
                                      !.indicator = Message("Edge: Processing", next.index + 1, Len(steps))]
    /\ timers' = Append(timers, Intersections(next.step, next.index + 1))
    /\ UNCHANGED <<canvas, disabled, uncaught>>

\* the final result is shown: setResultPolygon, the indicator, the button
\* and the highlight timer
PresentResult(resultPolygon) ==
    /\ canvas' = [canvas EXCEPT !.resultPolygon = resultPolygon]
    /\ animation' = [animation EXCEPT !.indicator = Message("Clipping complete! Final result polygon displayed", 0, 0)]
    /\ disabled' = [disabled EXCEPT !.nextStep = TRUE]
    /\ timers' = Append(timers, Highlight(resultPolygon))
    /\ UNCHANGED <<currentStepIndex, uncaught>>

\* the indicator reports and the button is disabled
Report(text) ==
    /\ animation' = [animation EXCEPT !.indicator = Message(text, 0, 0)]
    /\ disabled' = [disabled EXCEPT !.nextStep = TRUE]
    /\ UNCHANGED <<currentStepIndex, canvas, timers, uncaught>>

\* a TypeError leaves the handler where it stands
Throws ==
    /\ uncaught' = TRUE
    /\ UNCHANGED <<currentStepIndex, canvas, animation, disabled, timers>>

\* nextStep() of static/js/animation.js at the end of the ledger
LastStepStatic(lastStep) ==
    IF Len(steps) = 0 THEN Report("Error: No clipping result available")
    ELSE IF lastStep = None THEN Report("Error: Invalid clipping result")
    ELSE IF Len(lastStep.outputPolygon) < 3 THEN Report("No intersection between polygons")
    ELSE PresentResult(lastStep.outputPolygon)

\* nextStep() of unnamed/part_001 at the end of the ledger
LastStepBundled(lastStep) ==
    IF lastStep = None THEN Throws ELSE PresentResult(lastStep.outputPolygon)

\* nextStep() in step-by-step mode, getNextStep having returned next
NextStepFrom(next) ==
    IF next.step # None THEN PresentStep(next)
    ELSE IF copy = "bundled" THEN LastStepBundled(getStep(steps, Len(steps) - 1))
    ELSE LastStepStatic(getStep(steps, Len(steps) - 1))

\* a click on Next Step: nextStep()
NextStepClick ==
    /\ ~disabled.nextStep
    /\ Len(timers) < MaxTimers
    /\ IF ~animation.stepByStepMode
       THEN UNCHANGED <<currentStepIndex, canvas, animation, disabled, timers, uncaught>>
       ELSE NextStepFrom(getNextStep(steps, currentStepIndex))
    /\ presses' = Pressed
    /\ UNCHANGED <<copy, probe, subjectPolygon, clipPolygon, steps, lastCall, returned>>

\* timeline.kill() leaves every callback but those of the held timeline
Alive(t) == ~(t.kind = "timeline" /\ t.held)

\* a click on Reset Canvas: canvasManager.reset(), animationController.reset(),
\* updateButtonState('default')
ResetClick ==
    /\ subjectPolygon' = <<>>
    /\ clipPolygon' = <<>>
    /\ canvas' = [resultPolygon |-> <<>>, selectedPolygon |-> "null", isDrawing |-> FALSE]
    /\ timers' = IF animation.timeline THEN SelectSeq(timers, Alive) ELSE timers
    /\ currentStepIndex' = -1
    /\ animation' = [animation EXCEPT !.currentStep = None, !.indicator = Message("Ready", 0, 0)]
    /\ disabled' = updateButtonState("default", disabled, Complete, animation.checked)
    /\ presses' = -1
    /\ UNCHANGED <<copy, probe, steps, lastCall, returned, uncaught>>

\* the callbacks registered before callback i all wait longer than it
CanFire(i) == \A j \in 1..(i - 1) : timers[j].delay > timers[i].delay

\* the callbacks that wait when callback i has run
Without(i) == SubSeq(timers, 1, i - 1) \o SubSeq(timers, i + 1, Len(timers))

\* script.js: the Draw buttons are enabled a second after the page is loaded
EnableDrawFires(i) ==
    /\ timers[i].kind = "enableDraw"
    /\ disabled' = [disabled EXCEPT !.drawSubject = FALSE, !.drawClipping = FALSE]
    /\ timers' = Without(i)
    /\ UNCHANGED <<canvas, animation, uncaught>>

\* the first timer of nextStep: the intersections, and the timer for the output
IntersectionsFires(i) ==
    /\ timers[i].kind = "intersections"
    /\ animation' = IF Len(timers[i].step.intersections) > 0
                    THEN [animation EXCEPT !.indicator = Message("Edge: Found intersection(s)", timers[i].edge,
                                                                 Len(timers[i].step.intersections))]
                    ELSE animation
    /\ timers' = Append(Without(i), Output(timers[i].step, timers[i].edge))
    /\ UNCHANGED <<canvas, disabled, uncaught>>

\* the output polygon of a step is shown: setResultPolygon and the indicator
ShowOutput(outputPolygon, shown, gone, edge) ==
    /\ canvas' = [canvas EXCEPT !.resultPolygon = outputPolygon]
    /\ animation' = [animation EXCEPT !.indicator =
                        IF Len(outputPolygon) > 0 THEN Message(shown, edge, Len(outputPolygon))
                        ELSE Message(gone, edge, 0)]

\* the second timer of nextStep: the output polygon of the step
OutputFires(i) ==
    /\ timers[i].kind = "output"
    /\ ShowOutput(timers[i].step.outputPolygon, "Edge complete", "Edge: No polygon remains",
                  timers[i].edge)
    /\ timers' = Without(i)
    /\ UNCHANGED <<disabled, uncaught>>

\* the timer of the final result: drawHighlightedResult() and flashEffect(),
\* which reads resultPolygon[0].x
HighlightFires(i) ==
    /\ timers[i].kind = "highlight"
    /\ IF Len(timers[i].polygon) = 0
       THEN uncaught' = TRUE /\ timers' = Without(i)
       ELSE uncaught' = uncaught /\ timers' = Append(Without(i), Rehighlight)
    /\ UNCHANGED <<canvas, animation, disabled>>

\* the timer inside it: drawHighlightedResult()
RehighlightFires(i) ==
    /\ timers[i].kind = "rehighlight"
    /\ timers' = Without(i)
    /\ UNCHANGED <<canvas, animation, disabled, uncaught>>

\* onComplete of static/js/animation.js, totalSteps being the steps
\* counted when the timeline was made
OnCompleteStatic(i, totalSteps, lastStep) ==
    IF totalSteps = 0 \/ lastStep = None \/ Len(lastStep.outputPolygon) < 3
    THEN /\ animation' = [animation EXCEPT !.indicator =
                             Message(IF totalSteps = 0 THEN "Error: No clipping result available"
                                     ELSE IF lastStep = None THEN "Error: Invalid clipping result"
                                     ELSE "No intersection between polygons", 0, 0)]
         /\ timers' = Without(i)
         /\ UNCHANGED <<canvas, uncaught>>
    ELSE /\ canvas' = [canvas EXCEPT !.resultPolygon = lastStep.outputPolygon]
         /\ animation' = [animation EXCEPT !.indicator = Message("Clipping complete! Final result polygon displayed", 0, 0)]
         /\ timers' = Append(Without(i), Highlight(lastStep.outputPolygon))
         /\ UNCHANGED uncaught

\* onComplete of unnamed/part_001
OnCompleteBundled(i, totalSteps, lastStep) ==
    IF lastStep = None
    THEN /\ uncaught' = TRUE
         /\ timers' = Without(i)
         /\ UNCHANGED <<canvas, animation>>
    ELSE /\ canvas' = [canvas EXCEPT !.resultPolygon = lastStep.outputPolygon]
         /\ animation' = [animation EXCEPT !.indicator = Message("Clipping complete! Final result polygon displayed", 0, 0)]
         /\ timers' = Append(Without(i), Highlight(lastStep.outputPolygon))
         /\ UNCHANGED uncaught

\* the callback frame of the timeline t, which is callback i
FrameRuns(i, t, frame) ==
    CASE frame.cb = "edge" ->
            /\ animation' = [animation EXCEPT !.indicator = Message("Clipping against edge", frame.edge, Len(t.ledger))]
            /\ timers' = Append(Without(i), [t EXCEPT !.frames = Tail(t.frames), !.delay = 1000])
            /\ UNCHANGED <<canvas, uncaught>>
      [] frame.cb = "intersections" ->
            /\ animation' = [animation EXCEPT !.indicator = Message("Found intersection(s)", frame.edge,
                                                                    Len(t.ledger[frame.edge].intersections))]
            /\ timers' = Append(Without(i), [t EXCEPT !.frames = Tail(t.frames), !.delay = 1000])
            /\ UNCHANGED <<canvas, uncaught>>
      [] frame.cb = "output" ->
            /\ ShowOutput(t.ledger[frame.edge].outputPolygon, "Intermediate result after edge",
                          "No polygon remains after edge", frame.edge)
            /\ timers' = Append(Without(i), [t EXCEPT !.frames = Tail(t.frames), !.delay = 1000])
            /\ UNCHANGED uncaught
      [] frame.cb = "complete" ->
            IF copy = "bundled"
            THEN OnCompleteBundled(i, Len(t.ledger), getStep(steps, Len(t.ledger) - 1))
            ELSE OnCompleteStatic(i, Len(t.ledger), getStep(steps, Len(t.ledger) - 1))

\* the next callback of a timeline of runFullAnimation
TimelineFires(i) ==
    /\ timers[i].kind = "timeline"
    /\ FrameRuns(i, timers[i], Head(timers[i].frames))
    /\ UNCHANGED disabled

\* the callback i runs
TimerFires(i) ==
    /\ CanFire(i)
    /\ \/ EnableDrawFires(i)
       \/ IntersectionsFires(i)
       \/ OutputFires(i)
       \/ HighlightFires(i)
       \/ RehighlightFires(i)
       \/ TimelineFires(i)
    /\ UNCHANGED <<copy, probe, subjectPolygon, clipPolygon, steps, currentStepIndex,
                   lastCall, returned, presses>>

InitPage == InitWith({ << <<>>, <<>> >> })

NextPage ==
    \/ \E type \in {"subject", "clipping"} : DrawClick(type)
    \/ \E point \in Aims(canvas.selectedPolygon) : CanvasClick(point)
    \/ RunClick
    \/ ToggleChange
    \/ NextStepClick
    \/ ResetClick
    \/ \E i \in 1..Len(timers) : TimerFires(i)

\* the page from its load on, under every order of clicks and callbacks
SpecPage == InitPage /\ [][NextPage]_vars

(***************************************************************************)
(* Properties.                                                             *)
(***************************************************************************)
(***************************************************************************)
(* Plane geometry the properties are stated with, computed on the          *)
(* arguments (whole numbers) and independent of the clipper's own tests.   *)
(***************************************************************************)
Succ(q, k) == (k % Len(q)) + 1

Sign(a) == IF a[1] > 0 THEN 1 ELSE IF a[1] < 0 THEN -1 ELSE 0

\* the side of the line from a to b that p is on: 1 left, -1 right, 0 on it
Side(p, a, b) == Sign(Cross(p, a, b))

\* twice the signed area (shoelace): positive when counter-clockwise for y up
RECURSIVE Area2(_, _)
Area2(q, k) ==
    IF k > Len(q)
    THEN 0
    ELSE (q[k].x[1] * q[Succ(q, k)].y[1] - q[Succ(q, k)].x[1] * q[k].y[1]) + Area2(q, k + 1)

Winding(q) == IF Area2(q, 1) > 0 THEN 1 ELSE IF Area2(q, 1) < 0 THEN -1 ELSE 0

\* convex, wound uniformly, no edge of length 0, not flat
IsConvex(q) ==
    /\ Len(q) >= 3
    /\ Winding(q) # 0
    /\ \A k \in 1..Len(q) : q[k] # q[Succ(q, k)]
    /\ \A k \in 1..Len(q) : \A j \in 1..Len(q) : Side(q[j], q[k], q[Succ(q, k)]) * Winding(q) >= 0

\* p in the closed region of the convex polygon q
InConvex(p, q) ==
    \A k \in 1..Len(q) : Side(p, q[k], q[Succ(q, k)]) * Winding(q) >= 0

\* p on the closed segment from a to b
OnSegment(p, a, b) ==
    /\ Side(p, a, b) = 0
    /\ FLe(FMin(a.x, b.x), p.x) /\ FLe(p.x, FMax(a.x, b.x))
    /\ FLe(FMin(a.y, b.y), p.y) /\ FLe(p.y, FMax(a.y, b.y))

\* the closed segments a-b and c-d share a point
SegmentsMeet(a, b, c, d) ==
    \/ (Side(c, a, b) * Side(d, a, b) < 0 /\ Side(a, c, d) * Side(b, c, d) < 0)
    \/ OnSegment(c, a, b) \/ OnSegment(d, a, b) \/ OnSegment(a, c, d) \/ OnSegment(b, c, d)

OnBoundary(p, q) == \E k \in 1..Len(q) : OnSegment(p, q[k], q[Succ(q, k)])

\* the edge from a to b crosses the ray from p to the right (half-open rule)
CrossesRay(p, a, b) ==
    /\ FLt(p.y, a.y) # FLt(p.y, b.y)
    /\ Side(p, a, b) = (IF FLt(a.y, b.y) THEN 1 ELSE -1)

\* p in the closed region of the simple polygon q (crossing number)
InPolygon(p, q) ==
    \/ OnBoundary(p, q)
    \/ Cardinality({k \in 1..Len(q) : CrossesRay(p, q[k], q[Succ(q, k)])}) % 2 = 1

\* the closed regions of the simple polygons s and c share no point
NoOverlap(s, c) ==
    /\ \A k \in 1..Len(s) : \A j \in 1..Len(c) :
           ~SegmentsMeet(s[k], s[Succ(s, k)], c[j], c[Succ(c, j)])
    /\ \A k \in 1..Len(s) : ~InPolygon(s[k], c)
    /\ \A j \in 1..Len(c) : ~InPolygon(c[j], s)

PointSet(q) == {q[k] : k \in 1..Len(q)}

totalSteps == Len(steps)

LastStep == steps[Len(steps)]

Bundled == copy = "bundled"

\* C1: a clip call with a subject or a clip polygon of fewer than 3 points
\* returns the empty polygon and leaves no step in the ledger, whatever the
\* ledger held before
C1_ShortInputIsEmpty ==
    (lastCall.made /\ (Len(lastCall.subject) < 3 \/ Len(lastCall.clip) < 3))
        => (lastCall.result = <<>> /\ totalSteps = 0)

\* a short call made after a step of an earlier run had been handed out
C1_Witness ==
    /\ lastCall.made
    /\ Len(lastCall.subject) < 3
    /\ returned # None
    /\ totalSteps = 0

\* C2 as stated: the returned polygon is the outputPolygon of the last
\* recorded step, also when the call stopped early
C2_ResultIsLastOutput ==
    (lastCall.made /\ totalSteps >= 1) => lastCall.result = LastStep.outputPolygon

\* C2 amended: the returned polygon is the outputPolygon of the last recorded
\* step, except that the bundled copy returns the empty polygon when that
\* outputPolygon has fewer than 3 points
C2_ResultIsLastOutputOrEmpty ==
    (lastCall.made /\ totalSteps >= 1)
        => lastCall.result = IF Bundled /\ Len(LastStep.outputPolygon) < 3
                             THEN <<>>
                             ELSE LastStep.outputPolygon

\* an early stop whose last pass left one or two points
C2_Witness ==
    /\ lastCall.made /\ Bundled
    /\ totalSteps >= 1
    /\ Len(LastStep.outputPolygon) \in {1, 2}
    /\ lastCall.result = <<>>

\* C3: after a clip call on polygons of at least 3 points that returns a
\* non-empty polygon, totalSteps is the number of vertices of the clip polygon
C3_StepCount ==
    (lastCall.made /\ Len(lastCall.subject) >= 3 /\ Len(lastCall.clip) >= 3
        /\ lastCall.result # <<>>)
        => totalSteps = Len(lastCall.clip)

\* a successful call against a clip polygon of 4 edges, in each copy
C3_Witness ==
    /\ lastCall.made
    /\ Len(lastCall.result) >= 3
    /\ Len(lastCall.clip) = 4
    /\ totalSteps = 4

\* the arguments of the last clip call, when they are polygons
Called == lastCall.made /\ Len(lastCall.subject) >= 3 /\ Len(lastCall.clip) >= 3

\* the clip polygon is wound the way the copy's isInside takes as inside:
\* counter-clockwise (for y up) in the bundled copy, clockwise in the static one
WoundInside(c, q) == Winding(q) = (IF c = "bundled" THEN 1 ELSE -1)

\* C4: when the subject and a convex clip polygon do not overlap, clip
\* returns the empty polygon (the first half of the claim; the second is
\* that the last step recorded has an outputPolygon of length 0)
C4_NoOverlapIsEmpty ==
    (Called /\ Bundled /\ IsConvex(lastCall.clip) /\ NoOverlap(lastCall.subject, lastCall.clip))
        => lastCall.result = <<>>

SubjectInside == \A k \in 1..Len(lastCall.subject) : InConvex(lastCall.subject[k], lastCall.clip)

\* C5 as stated: a subject entirely inside a convex clip polygon comes back
\* with exactly its own vertices
C5_InsideIsUnchanged ==
    (Called /\ Bundled /\ IsConvex(lastCall.clip) /\ SubjectInside)
        => PointSet(lastCall.result) = PointSet(lastCall.subject)

\* C5 amended: a subject entirely inside a convex clip polygon that is wound
\* the way isInside takes as inside comes back with exactly its own
\* vertices, as many as it was given
C5_InsideWoundIsUnchanged ==
    (Called /\ IsConvex(lastCall.clip) /\ WoundInside(copy, lastCall.clip) /\ SubjectInside)
        => /\ PointSet(lastCall.result) = PointSet(lastCall.subject)
           /\ Len(lastCall.result) = Len(lastCall.subject)

\* a triangle inside the clip polygon, with a vertex on its boundary and one
\* off it, returned by the bundled copy
C5_Witness ==
    /\ Called /\ Bundled /\ IsConvex(lastCall.clip) /\ WoundInside(copy, lastCall.clip)
    /\ SubjectInside
    /\ Winding(lastCall.subject) # 0
    /\ \E k \in 1..3 : OnBoundary(lastCall.subject[k], lastCall.clip)
    /\ \E k \in 1..3 : ~OnBoundary(lastCall.subject[k], lastCall.clip)
    /\ PointSet(lastCall.result) = PointSet(lastCall.subject)

\* v was found by some pass where an edge of its input polygon meets the clip edge
FoundOnClipEdge(v) ==
    \E n \in 1..Len(steps) :
        /\ \E m \in 1..Len(steps[n].intersections) : steps[n].intersections[m] = v
        /\ OnSegment(v, steps[n].clipEdge.start, steps[n].clipEdge.end)
        /\ \E k \in 1..Len(steps[n].inputPolygon) :
               OnSegment(v, steps[n].inputPolygon[k], steps[n].inputPolygon[Succ(steps[n].inputPolygon, k)])

C7_SquareDiamond8 ==
    (lastCall.made /\ Bundled /\ lastCall.subject = Square /\ lastCall.clip = Diamond)
        => Len(lastCall.result) = 8

\* C7 amended: the square against the diamond gives the 4 corners of the
\* square (each lies on an edge of the diamond)
C7_SquareDiamond4 ==
    (lastCall.made /\ Bundled /\ lastCall.subject = Square /\ lastCall.clip = Diamond)
        => /\ Len(lastCall.result) = 4
           /\ PointSet(lastCall.result) = PointSet(Square)
           /\ \A k \in 1..4 : OnBoundary(Square[k], Diamond)

C7_Witness ==
    /\ lastCall.made /\ Bundled /\ lastCall.subject = Square /\ lastCall.clip = Diamond
    /\ Len(lastCall.result) = 4

Dist2(a, b) ==
    FAdd(FMul(FSub(b.x, a.x), FSub(b.x, a.x)), FMul(FSub(b.y, a.y), FSub(b.y, a.y)))

Dot(a, b, c) ==
    FAdd(FMul(FSub(b.x, a.x), FSub(c.x, b.x)), FMul(FSub(b.y, a.y), FSub(c.y, b.y)))

IsSquare(q) ==
    /\ Len(q) = 4
    /\ q[1] # q[2]
    /\ \A k \in 1..4 : /\ Dist2(q[k], q[Succ(q, k)]) = Dist2(q[1], q[2])
                       /\ Dot(q[k], q[Succ(q, k)], q[Succ(q, Succ(q, k))]) = FZero

RotateLeft(q) == [k \in 1..Len(q) |-> q[Succ(q, k)]]

SameSquare == Called /\ lastCall.subject = lastCall.clip /\ IsSquare(lastCall.clip)

\* C8 as stated: a square clipped by itself comes back with 4 vertices and
\* leaves 4 steps, each with an outputPolygon equal to its inputPolygon
C8_SameSquareUnchanged ==
    SameSquare
        => /\ Len(lastCall.result) = 4
           /\ PointSet(lastCall.result) = PointSet(lastCall.subject)
           /\ totalSteps = 4
           /\ \A n \in 1..Len(steps) : steps[n].outputPolygon = steps[n].inputPolygon

\* C8 amended: a square wound the way isInside takes as inside, clipped by
\* itself, comes back as it was given and leaves 4 steps; the outputPolygon
\* of each step is its inputPolygon in the static copy, and its inputPolygon
\* rotated by one place in the bundled copy
C8_SameSquareRotated ==
    (SameSquare /\ WoundInside(copy, lastCall.clip))
        => /\ lastCall.result = lastCall.subject
           /\ totalSteps = 4
           /\ \A n \in 1..Len(steps) :
                  steps[n].outputPolygon =
                      IF Bundled THEN RotateLeft(steps[n].inputPolygon) ELSE steps[n].inputPolygon

C8_Witness ==
    /\ SameSquare /\ WoundInside(copy, lastCall.clip) /\ Bundled
    /\ totalSteps = 4
    /\ steps[1].outputPolygon = RotateLeft(lastCall.subject)
    /\ steps[1].outputPolygon # lastCall.subject

LeftOf(s, c) == \A i \in 1..Len(s) : \A j \in 1..Len(c) : FLt(s[i].x, c[j].x)

TriangleLeftOfSquare ==
    /\ Called /\ Bundled
    /\ Len(lastCall.subject) = 3 /\ Winding(lastCall.subject) # 0
    /\ IsSquare(lastCall.clip)
    /\ LeftOf(lastCall.subject, lastCall.clip)

\* the clip edges that have every vertex of s strictly on their outer side
Excluding(s, c) ==
    {k \in 1..Len(c) : \A i \in 1..Len(s) : Side(s[i], c[k], c[Succ(c, k)]) < 0}

\* C9 as stated: a triangle left of the clip square gives an empty result
\* and fewer steps than the square has edges
C9_LeftTriangleStopsEarly ==
    TriangleLeftOfSquare
        => /\ lastCall.result = <<>>
           /\ totalSteps < Len(lastCall.clip)

\* C9 amended: a triangle left of the clip square gives an empty result, and
\* the last step recorded is for a clip edge no later than the first one
\* with the whole triangle on its outer side: fewer steps than edges unless
\* that edge is the last one listed
C9_LeftTriangleStops ==
    TriangleLeftOfSquare
        => /\ lastCall.result = <<>>
           /\ totalSteps >= 1
           /\ \E k \in Excluding(lastCall.subject, lastCall.clip) : totalSteps <= k
           /\ (\E k \in Excluding(lastCall.subject, lastCall.clip) : k < Len(lastCall.clip))
                  => totalSteps < Len(lastCall.clip)

\* the square listed so that the edge facing away from the triangle is last
C9_Witness ==
    /\ TriangleLeftOfSquare
    /\ lastCall.result = <<>>
    /\ totalSteps = Len(lastCall.clip)

\* C10: once a pass leaves fewer than 3 points, clip returns the empty
\* polygon and no step is recorded for a later clip edge
C10_NoStepAfterShort ==
    lastCall.made
        => \A n \in 1..Len(steps) :
               Len(steps[n].outputPolygon) < 3
                   => (n = Len(steps) /\ lastCall.result = <<>>)

\* some call of clip is made in this step
ClipStep == \E pair \in Reruns : ClipOn(pair)

\* step n (from 1) of the ledger is a step of the last call: its clip edge
\* is edge n of that call's clip polygon, and the first input is its subject
OfLastCall(n) ==
    /\ n <= Len(lastCall.clip)
    /\ steps[n].clipEdge = [start |-> lastCall.clip[n], end |-> lastCall.clip[Succ(lastCall.clip, n)]]
    /\ n = 1 => steps[n].inputPolygon = lastCall.subject

\* C11: the ledger holds only steps of the most recent clip call, a clip
\* call leaves the cursor at -1, and the getNextStep after it returns step 0
\* of the new run
C11_ClipDiscardsPreviousRun ==
    /\ [](lastCall.made => \A n \in 1..Len(steps) : OfLastCall(n))
    /\ [][ClipStep => currentStepIndex' = -1]_vars
    /\ [][(GetNextStep /\ currentStepIndex = -1 /\ Len(steps) > 0)
              => (returned' = steps[1] /\ OfLastCall(1))]_vars

\* a run of 3 steps after a run of 4 steps that had been stepped through
C11_Witness ==
    /\ lastCall.made /\ Len(steps) = 3 /\ currentStepIndex = -1
    /\ returned # None /\ returned.clipEdge.start = Rectangle[4]

\* C12: from cursor -1 (after resetSteps or clip) each getNextStep returns
\* the step after the cursor and moves the cursor onto it, through steps
\* 0 .. N-1 in order; at the end it returns none and leaves the cursor; no
\* other call moves the cursor forward, and -1 <= cursor <= N-1 throughout
C12_NextStepWalksLedger ==
    /\ [](-1 <= currentStepIndex /\ currentStepIndex <= Len(steps) - 1)
    /\ [][(ResetSteps \/ ClipStep) => currentStepIndex' = -1]_vars
    /\ [][GetNextStep =>
            IF currentStepIndex < Len(steps) - 1
            THEN currentStepIndex' = currentStepIndex + 1 /\ returned' = steps[currentStepIndex + 2]
            ELSE currentStepIndex' = currentStepIndex /\ returned' = None]_vars
    /\ [][(currentStepIndex' # currentStepIndex /\ currentStepIndex' # -1) => GetNextStep]_vars

\* the ledger of 4 steps walked to its end, and one more call that returned none
C12_Witness ==
    /\ Len(steps) = 4 /\ currentStepIndex = 3 /\ returned = None

\* C13: getStep(index) returns step index of the ledger for an index in
\* range and none for any other, and changes neither cursor nor ledger
C13_GetStepInRange ==
    [][\A index \in -1..(Len(steps) + 1) :
          GetStep(index) =>
              /\ returned' = IF 0 <= index /\ index < totalSteps THEN steps[index + 1] ELSE None
              /\ UNCHANGED <<steps, currentStepIndex>>]_vars

\* step 0 fetched by getStep while the cursor is further on
C13_Witness ==
    /\ Len(steps) = 3 /\ currentStepIndex = 2 /\ returned = steps[1]

MutateStep == \E ref \in 0..MaxRef, p \in MovedTo : MutatePoint(ref, p)

Private(p) == "ref" \notin DOMAIN p

PrivateStep(step) ==
    /\ Private(step.clipEdge.start) /\ Private(step.clipEdge.end)
    /\ \A k \in 1..Len(step.inputPolygon) : Private(step.inputPolygon[k])
    /\ \A k \in 1..Len(step.outputPolygon) : Private(step.outputPolygon[k])
    /\ \A k \in 1..Len(step.intersections) : Private(step.intersections[k])

\* the step's pass still reads as it was recorded: its output is the next
\* step's input or, for the last step of a full run, the returned polygon
\* as it was (the values of the arguments at the call are in lastCall)
AsRecorded(n) ==
    /\ steps[n].clipEdge = [start |-> Spread(lastCall.clip[n]),
                            end |-> Spread(lastCall.clip[Succ(lastCall.clip, n)])]
    /\ n = 1 => steps[n].inputPolygon = DeepCopy(lastCall.subject)
    /\ n > 1 => steps[n].inputPolygon = steps[n - 1].outputPolygon

\* C14: a recorded step holds none of the objects of the subject polygon,
\* of the clip polygon or of the returned polygon, so a later write by the
\* caller to any of them leaves every step as it was recorded
C14_StepsAreCopies ==
    /\ [](\A n \in 1..Len(steps) : PrivateStep(steps[n]) /\ AsRecorded(n))
    /\ [][MutateStep => steps' = steps]_vars

\* a point of the subject that clip returned was moved by the caller after
\* the call, and the ledger (with intersections) still has the old place
C14_Witness ==
    /\ lastCall.made /\ Len(steps) = 4
    /\ \E k \in 1..Len(lastCall.result) :
          /\ "ref" \in DOMAIN lastCall.result[k]
          /\ Spread(lastCall.result[k]) \notin PointSet(steps[4].outputPolygon)
    /\ \E n \in 1..4 : Len(steps[n].intersections) > 0

FreshRun == clipOf(copy, lastCall.subject, lastCall.clip)

CrossOf(p, a, b) ==
    (b.x[1] - a.x[1]) * (p.y[1] - a.y[1]) - (b.y[1] - a.y[1]) * (p.x[1] - a.x[1])

IsInsideMade == probe.fn = "isInside" /\ copy = "bundled"

\* C16: isInside(p, a, b) of unnamed/part_001 is true exactly when the cross
\* product (b.x-a.x)*(p.y-a.y) - (b.y-a.y)*(p.x-a.x) is 0 or more, so a
\* point on the line through a and b is inside
C16_IsInsideIsCrossSign ==
    IsInsideMade =>
        /\ probe.value = (CrossOf(probe.args[1], probe.args[2], probe.args[3]) >= 0)
        /\ CrossOf(probe.args[1], probe.args[2], probe.args[3]) = 0 => probe.value = TRUE

\* a point on the line of the edge, beyond its end, classified inside
C16_Witness ==
    /\ IsInsideMade /\ probe.value = TRUE
    /\ probe.args = <<Pt(2, 2), Pt(0, 0), Pt(1, 1)>>

\* what clip returns for the same subject and the clip polygon listed the
\* other way round
ReversedResult == clipOf(copy, lastCall.subject, Reversed(lastCall.clip)).result

\* p is inside the convex polygon q and on none of its edges' lines
StrictlyInside(p, q) ==
    \A k \in 1..Len(q) : Side(p, q[k], q[Succ(q, k)]) * Winding(q) > 0

\* the subject's vertices strictly inside the clip polygon of the call
InnerVertices ==
    {lastCall.subject[k] : k \in {j \in 1..Len(lastCall.subject) :
                                     StrictlyInside(lastCall.subject[j], lastCall.clip)}}

\* the results of the call for the winding isInside takes as inside, and
\* for the other one
ResultWound(c) == IF WoundInside(c, lastCall.clip) THEN lastCall.result ELSE ReversedResult

ResultUnwound(c) == IF WoundInside(c, lastCall.clip) THEN ReversedResult ELSE lastCall.result

\* C17 as stated: for a convex clip polygon, clip returns the same set of
\* vertices for the clip polygon and for the clip polygon reversed
C17_WindingIndependent ==
    (Called /\ IsConvex(lastCall.clip))
        => PointSet(lastCall.result) = PointSet(ReversedResult)

\* C17: the result depends on the winding of the convex clip polygon: a
\* vertex of the subject strictly inside it is a vertex of every non-empty
\* result for the winding isInside takes as inside, and of no result for the
\* other winding
C17_WindingDecidesInside ==
    (Called /\ IsConvex(lastCall.clip))
        => \A p \in InnerVertices :
              /\ p \notin PointSet(ResultUnwound(copy))
              /\ ResultWound(copy) # <<>> => p \in PointSet(ResultWound(copy))

\* a call whose subject has a vertex strictly inside the convex clip
\* polygon: it is in the result for one winding and not for the other
C17_Witness ==
    /\ Called /\ IsConvex(lastCall.clip)
    /\ \E p \in InnerVertices :
          p \in PointSet(ResultWound(copy)) /\ p \notin PointSet(ResultUnwound(copy))
    /\ PointSet(lastCall.result) # PointSet(ReversedResult)

\* the points the reference pass appends for the edge from current to next
RefCase(c, current, next, a, b) ==
    IF isInsideOf(c, current, a, b) /\ isInsideOf(c, next, a, b)
    THEN <<next>>
    ELSE IF isInsideOf(c, current, a, b) /\ ~isInsideOf(c, next, a, b)
    THEN IF computeIntersectionOf(c, current, next, a, b) # None
         THEN <<computeIntersectionOf(c, current, next, a, b)>>
         ELSE <<>>
    ELSE IF ~isInsideOf(c, current, a, b) /\ isInsideOf(c, next, a, b)
    THEN IF computeIntersectionOf(c, current, next, a, b) # None
         THEN <<computeIntersectionOf(c, current, next, a, b), next>>
         ELSE <<next>>
    ELSE <<>>

\* the reference pass over the edges (q[k], q[k+1]) of q, cyclically, for
\* todo edges from edge k on
RECURSIVE RefPass(_, _, _, _, _, _)
RefPass(c, q, k, todo, a, b) ==
    IF todo = 0
    THEN <<>>
    ELSE RefCase(c, q[k], q[Succ(q, k)], a, b) \o RefPass(c, q, Succ(q, k), todo - 1, a, b)

\* the edge the copy's loop visits first: (q[1], q[2]) in unnamed/part_001,
\* the closing edge (q[n], q[1]) in static/js/sutherland-hodgman.js
FirstEdge(c, q) == IF c = "bundled" THEN 1 ELSE Len(q)

RefOutput(c, step) ==
    IF Len(step.inputPolygon) = 0
    THEN <<>>
    ELSE RefPass(c, step.inputPolygon, FirstEdge(c, step.inputPolygon), Len(step.inputPolygon),
                 step.clipEdge.start, step.clipEdge.end)

Reasons(step) == {step.actions[k].reason : k \in 1..Len(step.actions)}

\* C18: the output of every recorded pass is that of the reference pass
\* over the edges of its input, each edge under exactly one of the four
\* cases (both inside: next; inside to outside: the intersection if found;
\* outside to inside: the intersection if found, then next; both outside:
\* nothing), the edges taken in the order the copy's loop visits them
C18_PassIsReference ==
    \A n \in 1..Len(steps) : steps[n].outputPolygon = RefOutput(copy, steps[n])

\* a pass whose input had an edge of each of the four cases
C18_Witness ==
    \E n \in 1..Len(steps) :
        /\ {"Both endpoints inside", "Moving from inside to outside",
            "Moving from outside to inside", "Both endpoints outside"} \subseteq Reasons(steps[n])
        /\ Len(steps[n].intersections) = 2

\* the determinant and the numerators of the solution of the two line
\* equations, on the integer coordinates of grid points
DetOf(s, e, cs, ce) ==
    (e.y[1] - s.y[1]) * (cs.x[1] - ce.x[1]) - (ce.y[1] - cs.y[1]) * (s.x[1] - e.x[1])

XTimesDet(s, e, cs, ce) ==
    (s.x[1] - e.x[1]) * (ce.x[1] * cs.y[1] - cs.x[1] * ce.y[1])
        - (cs.x[1] - ce.x[1]) * (e.x[1] * s.y[1] - s.x[1] * e.y[1])

YTimesDet(s, e, cs, ce) ==
    (ce.y[1] - cs.y[1]) * (e.x[1] * s.y[1] - s.x[1] * e.y[1])
        - (e.y[1] - s.y[1]) * (ce.x[1] * cs.y[1] - cs.x[1] * ce.y[1])

Least(a, b) == IF a <= b THEN a ELSE b

Most(a, b) == IF a <= b THEN b ELSE a

\* lo <= num / det <= hi
Between(num, det, lo, hi) ==
    IF det > 0 THEN lo * det <= num /\ num <= hi * det
    ELSE lo * det >= num /\ num >= hi * det

\* num / det within the bounding box of the segment from a to b, inclusive
InBox(xnum, ynum, det, a, b) ==
    /\ Between(xnum, det, Least(a.x[1], b.x[1]), Most(a.x[1], b.x[1]))
    /\ Between(ynum, det, Least(a.y[1], b.y[1]), Most(a.y[1], b.y[1]))

\* the lines are not parallel and their common point is within the bounding
\* boxes of both segments
MeetInBoxes(s, e, cs, ce) ==
    /\ DetOf(s, e, cs, ce) # 0
    /\ InBox(XTimesDet(s, e, cs, ce), YTimesDet(s, e, cs, ce), DetOf(s, e, cs, ce), s, e)
    /\ InBox(XTimesDet(s, e, cs, ce), YTimesDet(s, e, cs, ce), DetOf(s, e, cs, ce), cs, ce)

ComputeIntersectionMade == probe.fn = "computeIntersection"

\* C19 as stated: computeIntersection returns a point exactly when the two
\* lines are not parallel and the solution of the line equations lies within
\* the bounding boxes of both segments, bounds included; it returns none
\* otherwise
C19_PointIffMeetInBoxes ==
    ComputeIntersectionMade =>
        ((probe.value # None)
            = MeetInBoxes(probe.args[1], probe.args[2], probe.args[3], probe.args[4]))

\* C20: after a clip call step k of the ledger (from 0) has the clip edge
\* from C[k] to C[(k+1) mod n] of the clip polygon C of the call, step 0 has
\* the subject polygon of the call as its input, and every later step has
\* the output of the step before it as its input
C20_StepsFollowClipEdges ==
    lastCall.made =>
        /\ Len(steps) <= Len(lastCall.clip)
        /\ \A k \in 0..(Len(steps) - 1) :
              /\ steps[k + 1].clipEdge.start = lastCall.clip[k + 1]
              /\ steps[k + 1].clipEdge.end = lastCall.clip[((k + 1) % Len(lastCall.clip)) + 1]
              /\ k = 0 => steps[1].inputPolygon = lastCall.subject
              /\ k > 0 => steps[k + 1].inputPolygon = steps[k].outputPolygon

\* a run of 4 steps in which the second and the fourth pass cut something off
C20_Witness ==
    /\ lastCall.made /\ Len(steps) = 4
    /\ steps[2].outputPolygon # steps[2].inputPolygon
    /\ steps[4].outputPolygon # steps[4].inputPolygon
    /\ steps[2].inputPolygon # lastCall.subject
    /\ steps[4].clipEdge.end = lastCall.clip[1]

EmptyInputCall ==
    \E k \in EdgeStarts : ClipAgainstEdgeCall(<<>>, Rectangle[k], Rectangle[k + 1])

\* C21 as stated: clipAgainstEdge called with a polygon of no points
\* returns the empty polygon and pushes one step on the ledger, whose
\* inputPolygon, outputPolygon, intersections and actions are empty
C21_EmptyInputRecordsEmptyStep ==
    [][EmptyInputCall =>
          /\ probe'.value = <<>>
          /\ Len(steps') = Len(steps) + 1
          /\ steps'[Len(steps')].inputPolygon = <<>>
          /\ steps'[Len(steps')].outputPolygon = <<>>
          /\ steps'[Len(steps')].intersections = <<>>
          /\ steps'[Len(steps')].actions = <<>>]_vars

\* the vertices, in order, of the actions from k on whose type is in types
RECURSIVE Replay(_, _, _)
Replay(actions, k, types) ==
    IF k > Len(actions)
    THEN <<>>
    ELSE (IF actions[k].type \in types THEN <<actions[k].vertex>> ELSE <<>>)
             \o Replay(actions, k + 1, types)

ActionTypes(step) == {step.actions[k].type : k \in 1..Len(step.actions)}

\* C22: every recorded step replays from its actions: its outputPolygon is
\* the list of the vertices of its ADD_VERTEX and ADD_INTERSECTION actions
\* in order, and its intersections the list of the vertices of its
\* ADD_INTERSECTION actions in order
C22_StepReplaysFromActions ==
    \A n \in 1..Len(steps) :
        /\ steps[n].outputPolygon = Replay(steps[n].actions, 1, {"ADD_VERTEX", "ADD_INTERSECTION"})
        /\ steps[n].intersections = Replay(steps[n].actions, 1, {"ADD_INTERSECTION"})

\* a step with actions of the three types, two of them intersections
C22_Witness ==
    \E n \in 1..Len(steps) :
        /\ ActionTypes(steps[n]) = {"ADD_VERTEX", "ADD_INTERSECTION", "SKIP_VERTEX"}
        /\ Len(steps[n].intersections) = 2
        /\ Len(steps[n].outputPolygon) < Len(steps[n].actions)

\* Next Step is pressed in step-by-step mode
PressedNext == NextStepClick /\ animation.stepByStepMode

\* the press presents ledger step k: the cursor is on it, it is the
\* controller's current step, the indicator names edge k + 1 of the ledger,
\* and the timer for its intersections is set
PresentsStep(k) ==
    /\ currentStepIndex' = k
    /\ animation'.currentStep = steps[k + 1]
    /\ animation'.indicator = Message("Edge: Processing", k + 1, Len(steps))
    /\ timers' = Append(timers, Intersections(steps[k + 1], k + 1))
    /\ disabled' = disabled
    /\ uncaught' = uncaught

\* the press presents the final result, the output polygon of the last step
\* (or says that it is no polygon), and disables the button
PresentsFinal ==
    /\ Len(steps) > 0
    /\ currentStepIndex' = currentStepIndex
    /\ disabled'.nextStep
    /\ uncaught' = uncaught
    /\ \/ /\ canvas'.resultPolygon = steps[Len(steps)].outputPolygon
          /\ animation'.indicator.text = "Clipping complete! Final result polygon displayed"
       \/ /\ Len(steps[Len(steps)].outputPolygon) < 3
          /\ animation'.indicator.text = "No intersection between polygons"
          /\ canvas' = canvas

\* the press reports that there is no result, and disables the button
ReportsNone ==
    /\ Len(steps) = 0
    /\ animation'.indicator.text = "Error: No clipping result available"
    /\ disabled'.nextStep
    /\ uncaught' = uncaught
    /\ canvas' = canvas /\ timers' = timers

\* C23: in step-by-step mode, of the presses of Next Step since Run Clipping
\* left a ledger of N steps, the k-th (k = 1..N) presents ledger step k - 1
\* as edge k of N, and the one after them presents the final result and
\* disables the button, whatever callbacks are waiting
C23_PressesWalkTheRun ==
    [][PressedNext /\ presses >= 0 =>
          IF presses < Len(steps) THEN PresentsStep(presses) ELSE PresentsFinal]_vars

\* all the steps of a run were presented and then its final result, while a
\* timer of an earlier press was waiting
C23_Witness ==
    /\ presses = Len(steps) + 1
    /\ Len(steps) >= 3
    /\ disabled.nextStep
    /\ \E i \in 1..Len(timers) : timers[i].kind \in {"intersections", "output"}
    /\ \E i \in 1..Len(timers) : timers[i].kind = "highlight"

\* C24 as stated: from a press of Reset Canvas until the next press of Run
\* Clipping the result polygon of the canvas is empty
C24_ResetDiscardsTheRun == presses = -1 => canvas.resultPolygon = <<>>

\* C25 as stated: both Draw buttons are disabled while a polygon is drawn,
\* and while none is drawn each polygon has 0 or at least 3 points
C25_DrawingKeepsItsType ==
    /\ canvas.isDrawing => disabled.drawSubject /\ disabled.drawClipping
    /\ ~canvas.isDrawing =>
          \A type \in {"subject", "clipping"} : Len(Drawn(type)) = 0 \/ Len(Drawn(type)) >= 3

\* C26: whenever Run Clipping is enabled no polygon is being drawn and both
\* polygons have at least 3 points, and clip was never called with a
\* polygon of fewer than 3 points
C26_RunNeedsBothPolygons ==
    /\ ~disabled.runClipping => ~canvas.isDrawing /\ Complete
    /\ lastCall.made => Len(lastCall.subject) >= 3 /\ Len(lastCall.clip) >= 3

\* clip has been called from the page, and Run Clipping is enabled again
C26_Witness == lastCall.made /\ ~disabled.runClipping /\ Complete

\* C27 as stated: a press of Next Step in step-by-step mode presents a
\* step, presents the final result, or reports that there is none and
\* disables the button, and raises nothing
C27_NextStepNeverFails ==
    [][PressedNext =>
          \/ \E k \in 0..(Len(steps) - 1) : PresentsStep(k)
          \/ PresentsFinal
          \/ ReportsNone]_vars

NoRepeat(q) == \A k \in 1..(Len(q) - 1) : q[k] # q[k + 1]

\* C29 as stated: when no two consecutive vertices of the subject polygon
\* are equal, no step's outputPolygon and no polygon clip returns has two
\* equal consecutive vertices
C29_NoRepeatedVertex ==
    (Called /\ NoRepeat(lastCall.subject) /\ lastCall.subject[1] # lastCall.subject[Len(lastCall.subject)])
        => /\ NoRepeat(lastCall.result)
           /\ \A n \in 1..Len(steps) : NoRepeat(steps[n].outputPolygon)

\* C30 as stated: for the arguments of every clip call the two copies
\* return the same polygon and leave the same number of steps
C30_CopiesAgree ==
    lastCall.made =>
        /\ clipOf("bundled", lastCall.subject, lastCall.clip).result
               = clipOf("static", lastCall.subject, lastCall.clip).result
        /\ Len(clipOf("bundled", lastCall.subject, lastCall.clip).steps)
               = Len(clipOf("static", lastCall.subject, lastCall.clip).steps)

====
